---- MODULE Spec2Model ----
(***************************************************************************)
(* xk6-pubsub: the k6 extension "k6/x/pubsub".  The repository holds two   *)
(* programs with the same surface:                                         *)
(*   "watermill"  src/pubsub.go          (package pubsub, the client is a  *)
(*                                        watermill googlecloud.Publisher) *)
(*   "native"     src/unnamed/part_000   (package xk6pubsub, the client is *)
(*                                        a cloud.google.com pubsub.Client)*)
(* A run is a run of one of them (variable variant).  Definitions of the   *)
(* watermill program keep the source's names; those of the native program  *)
(* carry the prefix xk6.                                                   *)
(*                                                                         *)
(* A Go int and a time.Duration are 8 bytes, little endian, two's          *)
(* complement.  A string the code converts or measures (msg, credentials)  *)
(* is the sequence of its bytes; one it only passes on is a TLA+ string.   *)
(***************************************************************************)
EXTENDS Integers, Sequences, FiniteSets, TLC

VARIABLES
    variant,     \* which of the two programs runs
    terminated,  \* the process has exited through log.Fatalf
    publishers,  \* one entry per call of Publisher(config), in call order
    calls,       \* per VU: the publish call it is in, or was last in
    sent,        \* per VU: what its current call has submitted to the client
    result,      \* per VU: the client's result for that submission
    sink,        \* per VU: what its current call has handed to ReportError
    cancelled    \* per VU: the host has cancelled the VU's execution context

vars == <<variant, terminated, publishers, calls, sent, result, sink, cancelled>>

(* ------------------------------------------------------------------ *)
(* 64-bit integers                                                     *)
(* ------------------------------------------------------------------ *)

\* Number of Publisher(config) calls a run of Spec makes.
MaxPublishers == 2
\* Number of Publisher(config) calls a run of SpecConfig makes.
MaxConfigPublishers == 1

IntBytes == 8

SignExt(x, n) ==
    [i \in 1..n |-> IF i <= Len(x) THEN x[i]
                    ELSE IF x[Len(x)] >= 128 THEN 255 ELSE 0]

RECURSIVE ColSum(_, _, _, _)
\* a[1]*b[k] + a[2]*b[k-1] + ... + a[i]*b[k+1-i]
ColSum(a, b, k, i) ==
    IF i = 0 THEN 0 ELSE a[i] * b[k + 1 - i] + ColSum(a, b, k, i - 1)

RECURSIVE MulCols(_, _, _, _, _)
MulCols(a, b, n, k, carry) ==
    IF k > n THEN << >>
    ELSE LET s == ColSum(a, b, k, k) + carry
         IN  <<s % 256>> \o MulCols(a, b, n, k + 1, s \div 256)

\* The product of two n-byte integers, cut to n bytes (Go's wrapping *).
MulBytes(a, b, n) == MulCols(a, b, n, 1, 0)

\* Go's x * y on int64 operands.
Mul64(x, y) == MulBytes(x, y, IntBytes)

IsNegative(x) == x[Len(x)] >= 128
IsZero(x) == \A i \in 1..Len(x) : x[i] = 0

\* x < 1 on a Go int
LessThanOne(x) == IsNegative(x) \/ IsZero(x)

Int0 == <<0, 0, 0, 0, 0, 0, 0, 0>>
\* the literal 5 of cnf.PublishTimeout = 5
Int5 == <<5, 0, 0, 0, 0, 0, 0, 0>>
\* time.Second: 1000000000 nanoseconds
Second == <<0, 202, 154, 59, 0, 0, 0, 0>>

(* ------------------------------------------------------------------ *)
(* Configuration                                                       *)
(* ------------------------------------------------------------------ *)

Absent == [kind |-> "absent"]
StrV(s) == [kind |-> "string", val |-> s]
IntV(n) == [kind |-> "int", val |-> n]
BoolV(b) == [kind |-> "bool", val |-> b]

\* A one-line credentials document, as bytes.
CredsJSON == <<123, 125>>

\* publish timeouts a script may pass
TimeoutInputs ==
    { Absent,
      IntV(Int0),
      IntV(<<255, 255, 255, 255, 255, 255, 255, 255>>),   \* -1
      IntV(<<0, 0, 0, 0, 0, 0, 0, 128>>),                 \* -2^63
      IntV(<<1, 0, 0, 0, 0, 0, 0, 0>>),                   \* 1
      IntV(<<30, 0, 0, 0, 0, 0, 0, 0>>),                  \* 30
      IntV(<<4, 125, 193, 37, 2, 0, 0, 0>>),              \* 9223372036
      IntV(<<5, 125, 193, 37, 2, 0, 0, 0>>),              \* 9223372037
      IntV(<<10, 250, 130, 75, 4, 0, 0, 0>>),             \* 18446744074
      StrV(<<51, 48>>) }                                  \* "30": not a number

CredentialInputs == { Absent, StrV(<< >>), StrV(CredsJSON), IntV(Int5) }

AllConfigs ==
    [ ProjectID : {StrV("p")},
      Credentials : CredentialInputs,
      PublishTimeout : TimeoutInputs,
      Debug : {Absent},
      Trace : {Absent},
      DoNotCreateTopicIfMissing : {BoolV(TRUE)} ]

\* The configurations the scripts of the publish-side specification pass.
ScriptConfigs ==
    { c \in AllConfigs :
        \/ c.PublishTimeout = IntV(<<30, 0, 0, 0, 0, 0, 0, 0>>) /\ c.Credentials = StrV(CredsJSON)
        \/ c.PublishTimeout = StrV(<<51, 48>>) /\ c.Credentials = Absent }

\* mapstructure.Decode of one field into a struct field of the given kind:
\* an absent key leaves the zero value, a value of another kind is an error.
FieldOk(f, kind) == f.kind \in {"absent", kind}
FieldVal(f, zero) == IF f.kind = "absent" THEN zero ELSE f.val

\* err != nil of mapstructure.Decode(config, cnf)
DecodeFails(config) ==
    ~ /\ FieldOk(config.ProjectID, "string")
      /\ FieldOk(config.Credentials, "string")
      /\ FieldOk(config.PublishTimeout, "int")
      /\ FieldOk(config.Debug, "bool")
      /\ FieldOk(config.Trace, "bool")
      /\ FieldOk(config.DoNotCreateTopicIfMissing, "bool")

\* cnf after a successful mapstructure.Decode(config, cnf)
publisherConf(config) ==
    [ ProjectID |-> FieldVal(config.ProjectID, ""),
      Credentials |-> FieldVal(config.Credentials, << >>),
      PublishTimeout |-> FieldVal(config.PublishTimeout, Int0),
      Debug |-> FieldVal(config.Debug, FALSE),
      Trace |-> FieldVal(config.Trace, FALSE),
      DoNotCreateTopicIfMissing |-> FieldVal(config.DoNotCreateTopicIfMissing, FALSE) ]

\* if cnf.PublishTimeout < 1 { cnf.PublishTimeout = 5 }
DefaultTimeout(n) == IF LessThanOne(n) THEN Int5 ELSE n

\* time.Second * time.Duration(cnf.PublishTimeout)
TimeoutDuration(n) == Mul64(Second, n)

\* option.WithCredentialsJSON([]byte(credentials))
WithCredentialsJSON(bytes) == [option |-> "WithCredentialsJSON", json |-> bytes]

\* Mutant: the option is appended whatever the length of credentials.
withCredentials_Always(credentials) == <<WithCredentialsJSON(credentials)>>

withCredentials(credentials) ==
    IF Len(credentials) > 0 THEN <<WithCredentialsJSON(credentials)>> ELSE << >>

\* The googlecloud.PublisherConfig and logger handed to googlecloud.NewPublisher.
PublisherConfig(cnf) ==
    [ ProjectID |-> cnf.ProjectID,
      PublishTimeout |-> TimeoutDuration(DefaultTimeout(cnf.PublishTimeout)),
      DoNotCreateTopicIfMissing |-> cnf.DoNotCreateTopicIfMissing,
      ClientOptions |-> withCredentials(cnf.Credentials),
      Logger |-> [debug |-> cnf.Debug, trace |-> cnf.Trace] ]

\* time.Duration(cnf.PublishTimeout) * time.Second
xk6TimeoutDuration(n) == Mul64(n, Second)

\* var opt; if len(cnf.Credentials) > 0 { opt = append(opt, WithCredentialsJSON) }
xk6ClientOptions(credentials) ==
    IF Len(credentials) > 0 THEN <<WithCredentialsJSON(credentials)>> ELSE << >>

\* The arguments of pubsub.NewClientWithConfig; PublishTimeout is the
\* gax.WithTimeout of clientConfig.PublisherCallOptions.Publish.
xk6ClientConfig(cnf) ==
    [ ProjectID |-> cnf.ProjectID,
      PublishTimeout |-> xk6TimeoutDuration(DefaultTimeout(cnf.PublishTimeout)),
      ClientOptions |-> xk6ClientOptions(cnf.Credentials) ]

NoArgs == [none |-> TRUE]

\* Mutant: log.Printf in place of log.Fatalf; the process goes on.
Fatal_LogOnly(config, args) ==
    /\ UNCHANGED terminated
    /\ publishers' = Append(publishers,
           [config |-> config, decoded |-> args # NoArgs, args |-> args,
            handle |-> FALSE])

\* log.Fatalf: the message is printed and the process exits; the entry
\* records how far the constructor got.
Fatal(config, args) ==
    /\ terminated' = TRUE
    /\ publishers' = Append(publishers,
           [config |-> config, decoded |-> args # NoArgs, args |-> args,
            handle |-> FALSE])

Construct(config, args, ok) ==
    IF ok
    THEN /\ publishers' = Append(publishers,
                [config |-> config, decoded |-> TRUE, args |-> args,
                 handle |-> TRUE])
         /\ UNCHANGED terminated
    ELSE Fatal(config, args)

\* func (ps *PubSub) Publisher(config) *googlecloud.Publisher; ok is whether
\* googlecloud.NewPublisher returns a nil error.
Publisher(config, ok) ==
    /\ variant = "watermill"
    /\ ~terminated
    /\ IF DecodeFails(config)
       THEN Fatal(config, NoArgs)
       ELSE Construct(config, PublisherConfig(publisherConf(config)), ok)
    /\ UNCHANGED <<variant, calls, sent, result, sink, cancelled>>

\* func (ps *PubSub) Publisher(config) *pubsub.Client; ok is whether
\* pubsub.NewClientWithConfig returns a nil error.
xk6Publisher(config, ok) ==
    /\ variant = "native"
    /\ ~terminated
    /\ IF DecodeFails(config)
       THEN Fatal(config, NoArgs)
       ELSE Construct(config, xk6ClientConfig(publisherConf(config)), ok)
    /\ UNCHANGED <<variant, calls, sent, result, sink, cancelled>>

(* ------------------------------------------------------------------ *)
(* Publishing                                                          *)
(* ------------------------------------------------------------------ *)

VUs == {"vu1", "vu2"}

\* What watermill.NewShortUUID() returns; the code only passes it on.
UUIDs == {"u1"}

\* lib.GetState(ctx) / ps.vu.State(): nil outside an iteration.
States == {"nil", "state"}

\* Errors the external client ends a publish with (the publish timeout
\* among them).
Errors == {"DeadlineExceeded", "Unavailable"}
ErrCanceled == "context canceled"
\* errors.New("xk6-pubsub: state is nil")
ErrStateNil == "xk6-pubsub: state is nil"
Nil == "nil"

\* A Go map[string]string is a function; the nil map reads as the empty one.
NilMap == << >>

MsgHello == <<104, 105>>
MsgBye == <<98, 121, 101>>

Inputs ==
    { [fn |-> "Publish", topic |-> "topic-a", msg |-> MsgHello, attributes |-> NilMap],
      [fn |-> "PublishWithAttributes", topic |-> "topic-a", msg |-> MsgHello,
       attributes |-> ("k" :> "v") @@ ("trace" :> "1")],
      [fn |-> "PublishWithAttributes", topic |-> "topic-b", msg |-> MsgBye,
       attributes |-> NilMap] }

Idle == [pc |-> "idle"]

\* The handles Publisher has returned: positions in publishers.
Handles == {h \in 1..Len(publishers) : publishers[h].handle}

\* context.Background(), and the execution context of the iteration of v.
Background == [kind |-> "Background", of |-> "none"]
VUContext(v) == [kind |-> "VU", of |-> v]

\* []byte(msg)
Bytes(msg) == [i \in 1..Len(msg) |-> msg[i]]

\* message.NewMessage(uuid, payload): a message with an empty Metadata.
NewMessage(uuid, payload) ==
    [UUID |-> uuid, Metadata |-> NilMap, Payload |-> payload]

\* Mutant: the metadata argument is dropped.
createMessage_NoMetadata(uuid, payload, metadata) ==
    [UUID |-> uuid, Metadata |-> NilMap, Payload |-> payload]

createMessage(uuid, payload, metadata) ==
    [UUID |-> uuid, Metadata |-> metadata, Payload |-> payload]

\* ReportError(err, msg): one more entry in the diagnostic sink (log is what
\* the call has reported so far); it returns to its caller.
ReportError(log, err, msg) == Append(log, [err |-> err, msg |-> msg])

\* The frame of a publish call that has entered publishMessage.
Frame(fn, p, topic, msg, attributes, state) ==
    [fn |-> fn, p |-> p, topic |-> topic, msg |-> msg,
     attributes |-> attributes, state |-> state]

\* return err / return nil of publishMessage
Return(v, frame, ret) ==
    calls' = [calls EXCEPT ![v] = [pc |-> "returned", ret |-> ret] @@ frame]

\* The call is inside the client (p.Publish, res.Get) and blocks there.
Block(v, frame) ==
    calls' = [calls EXCEPT ![v] = [pc |-> "waiting"] @@ frame]

\* err := p.Publish(topic, message): the call takes no context, and the
\* message carries none (NewMessage and createMessage set no ctx), so the
\* client works under context.Background().
Submit(p, topic, message) ==
    [p |-> p, topic |-> topic, message |-> message, ctx |-> Background]

\* Mutant: p.Publish is called before the state is looked at.
publishMessage_NoStateCheck(v, frame, p, topic, message, state) ==
    /\ sink' = [sink EXCEPT ![v] = << >>]
    /\ sent' = [sent EXCEPT ![v] = <<Submit(p, topic, message)>>]
    /\ result' = [result EXCEPT ![v] = "pending"]
    /\ Block(v, frame)

\* publishMessage up to and including the call of p.Publish
publishMessage(v, frame, p, topic, message, state) ==
    IF state = Nil
    THEN /\ sink' = [sink EXCEPT ![v] = ReportError(<< >>, ErrStateNil, "cannot determine state")]
         /\ sent' = [sent EXCEPT ![v] = << >>]
         /\ result' = [result EXCEPT ![v] = "none"]
         /\ Return(v, frame, ErrStateNil)
    ELSE /\ sink' = [sink EXCEPT ![v] = << >>]
         /\ sent' = [sent EXCEPT ![v] = <<Submit(p, topic, message)>>]
         /\ result' = [result EXCEPT ![v] = "pending"]
         /\ Block(v, frame)

CanCall(v, p) ==
    /\ ~terminated
    /\ calls[v].pc \in {"idle", "returned"}
    /\ p \in Handles

Publish(v, p, topic, msg, state, uuid) ==
    /\ variant = "watermill"
    /\ CanCall(v, p)
    /\ publishMessage(v, Frame("Publish", p, topic, msg, NilMap, state),
                      p, topic, NewMessage(uuid, Bytes(msg)), state)
    /\ cancelled' = [cancelled EXCEPT ![v] = FALSE]
    /\ UNCHANGED <<variant, terminated, publishers>>

PublishWithAttributes(v, p, topic, msg, attributes, state, uuid) ==
    /\ variant = "watermill"
    /\ CanCall(v, p)
    /\ publishMessage(v, Frame("PublishWithAttributes", p, topic, msg, attributes, state),
                      p, topic, createMessage(uuid, Bytes(msg), attributes), state)
    /\ cancelled' = [cancelled EXCEPT ![v] = FALSE]
    /\ UNCHANGED <<variant, terminated, publishers>>

\* Mutant: a new error is returned in place of the client's.
publishMessageEnd_NewError(v, err) ==
    IF err # "acked"
    THEN /\ sink' = [sink EXCEPT ![v] = ReportError(sink[v], err, "xk6-pubsub: unable to publish message")]
         /\ Return(v, calls[v], "xk6-pubsub: unable to publish message")
    ELSE /\ UNCHANGED sink
         /\ Return(v, calls[v], Nil)

\* if err != nil { ReportError(...); return err }; return nil
publishMessageEnd(v, err) ==
    IF err # "acked"
    THEN /\ sink' = [sink EXCEPT ![v] = ReportError(sink[v], err, "xk6-pubsub: unable to publish message")]
         /\ Return(v, calls[v], err)
    ELSE /\ UNCHANGED sink
         /\ Return(v, calls[v], Nil)

\* Mutant: the call returns nil without waiting for the client's outcome.
PublishReturns_NoWait(v) ==
    /\ variant = "watermill"
    /\ ~terminated
    /\ calls[v].pc = "waiting"
    /\ Return(v, calls[v], Nil)
    /\ UNCHANGED <<variant, terminated, publishers, sent, result, sink, cancelled>>

\* p.Publish returns once the client has the outcome of the submission.
PublishReturns(v) ==
    /\ variant = "watermill"
    /\ ~terminated
    /\ calls[v].pc = "waiting"
    /\ result[v] # "pending"
    /\ publishMessageEnd(v, result[v])
    /\ UNCHANGED <<variant, terminated, publishers, sent, result, cancelled>>

\* msg := &pubsub.Message{Data: data}; if len(attributes) > 0 { ... }
xk6Message(data, attributes) ==
    [Data |-> data,
     Attributes |-> IF Len(attributes) > 0 THEN attributes[1] ELSE NilMap]

\* ctx := context.Background(); res := p.Topic(topic).Publish(ctx, msg)
xk6Submit(p, topic, msg) ==
    [p |-> p, topic |-> topic, message |-> msg, ctx |-> Background]

\* Mutant: the message is published a second time (a retry).
xk6publishMessage_Twice(v, frame, p, topic, data, state, attributes) ==
    IF state = Nil
    THEN /\ sink' = [sink EXCEPT ![v] = ReportError(<< >>, ErrStateNil, "cannot determine state")]
         /\ sent' = [sent EXCEPT ![v] = << >>]
         /\ result' = [result EXCEPT ![v] = "none"]
         /\ Return(v, frame, ErrStateNil)
    ELSE /\ sink' = [sink EXCEPT ![v] = << >>]
         /\ sent' = [sent EXCEPT ![v] =
                <<xk6Submit(p, topic, xk6Message(data, attributes)),
                  xk6Submit(p, topic, xk6Message(data, attributes))>>]
         /\ result' = [result EXCEPT ![v] = "pending"]
         /\ Block(v, frame)

\* publishMessage up to and including res.Get(ctx) being entered
xk6publishMessage(v, frame, p, topic, data, state, attributes) ==
    IF state = Nil
    THEN /\ sink' = [sink EXCEPT ![v] = ReportError(<< >>, ErrStateNil, "cannot determine state")]
         /\ sent' = [sent EXCEPT ![v] = << >>]
         /\ result' = [result EXCEPT ![v] = "none"]
         /\ Return(v, frame, ErrStateNil)
    ELSE /\ sink' = [sink EXCEPT ![v] = << >>]
         /\ sent' = [sent EXCEPT ![v] = <<xk6Submit(p, topic, xk6Message(data, attributes))>>]
         /\ result' = [result EXCEPT ![v] = "pending"]
         /\ Block(v, frame)

xk6Publish(v, p, topic, msg, state) ==
    /\ variant = "native"
    /\ CanCall(v, p)
    /\ xk6publishMessage(v, Frame("Publish", p, topic, msg, NilMap, state),
                         p, topic, Bytes(msg), state, << >>)
    /\ cancelled' = [cancelled EXCEPT ![v] = FALSE]
    /\ UNCHANGED <<variant, terminated, publishers>>

xk6PublishWithAttributes(v, p, topic, msg, attributes, state) ==
    /\ variant = "native"
    /\ CanCall(v, p)
    /\ xk6publishMessage(v, Frame("PublishWithAttributes", p, topic, msg, attributes, state),
                         p, topic, Bytes(msg), state, <<attributes>>)
    /\ cancelled' = [cancelled EXCEPT ![v] = FALSE]
    /\ UNCHANGED <<variant, terminated, publishers>>

\* Mutant: err is a variable the calls share, so a call may return the
\* outcome of another call's submission.
xk6publishMessageEnd_SharedErr(v, err) ==
    \E w \in VUs :
        /\ result[w] \notin {"none", "pending"}
        /\ IF result[w] # "acked"
           THEN /\ sink' = [sink EXCEPT ![v] = ReportError(sink[v], result[w], "xk6-pubsub: unable to publish message")]
                /\ Return(v, calls[v], result[w])
           ELSE /\ UNCHANGED sink
                /\ Return(v, calls[v], Nil)

\* _, err := res.Get(ctx); if err != nil { ReportError(...); return err }; return nil
xk6publishMessageEnd(v, err) ==
    IF err # "acked"
    THEN /\ sink' = [sink EXCEPT ![v] = ReportError(sink[v], err, "xk6-pubsub: unable to publish message")]
         /\ Return(v, calls[v], err)
    ELSE /\ UNCHANGED sink
         /\ Return(v, calls[v], Nil)

\* res.Get(ctx) returns once the result is ready.
xk6GetReturns(v) ==
    /\ variant = "native"
    /\ ~terminated
    /\ calls[v].pc = "waiting"
    /\ result[v] # "pending"
    /\ xk6publishMessageEnd(v, result[v])
    /\ UNCHANGED <<variant, terminated, publishers, sent, result, cancelled>>

\* What the external client may end the submission of v with: the service's
\* acknowledgement, a failure, or, when the context it was handed is the VU's
\* and that context is cancelled, the cancellation.
Outcomes(v) ==
    {"acked"} \cup Errors \cup
    (IF cancelled[v] /\ \E i \in 1..Len(sent[v]) : sent[v][i].ctx = VUContext(v)
     THEN {ErrCanceled} ELSE {})

\* The external client decides the pending submission of v.
ClientResolves(v, outcome) ==
    /\ ~terminated
    /\ calls[v].pc = "waiting"
    /\ result[v] = "pending"
    /\ outcome \in Outcomes(v)
    /\ result' = [result EXCEPT ![v] = outcome]
    /\ UNCHANGED <<variant, terminated, publishers, calls, sent, sink, cancelled>>

\* The host cancels the execution context of v while its call is in flight.
HostCancels(v) ==
    /\ ~terminated
    /\ calls[v].pc = "waiting"
    /\ ~cancelled[v]
    /\ cancelled' = [cancelled EXCEPT ![v] = TRUE]
    /\ UNCHANGED <<variant, terminated, publishers, calls, sent, result, sink>>

(* ------------------------------------------------------------------ *)
(* Specifications                                                      *)
(* ------------------------------------------------------------------ *)

Init ==
    /\ variant \in {"watermill", "native"}
    /\ terminated = FALSE
    /\ publishers = << >>
    /\ calls = [v \in VUs |-> Idle]
    /\ sent = [v \in VUs |-> << >>]
    /\ result = [v \in VUs |-> "none"]
    /\ sink = [v \in VUs |-> << >>]
    /\ cancelled = [v \in VUs |-> FALSE]

\* The calls of one exported function among the inputs.
Of(inputs, fn) == {in \in inputs : in.fn = fn}

NextOf(configs, max, vus, inputs) ==
    \/ \E config \in configs, ok \in BOOLEAN :
          Len(publishers) < max /\ Publisher(config, ok)
    \/ \E config \in configs, ok \in BOOLEAN :
          Len(publishers) < max /\ xk6Publisher(config, ok)
    \/ \E v \in vus, in \in Of(inputs, "Publish"), p \in Handles, state \in States, uuid \in UUIDs :
          Publish(v, p, in.topic, in.msg, state, uuid)
    \/ \E v \in vus, in \in Of(inputs, "PublishWithAttributes"), p \in Handles, state \in States, uuid \in UUIDs :
          PublishWithAttributes(v, p, in.topic, in.msg, in.attributes, state, uuid)
    \/ \E v \in vus, in \in Of(inputs, "Publish"), p \in Handles, state \in States :
          xk6Publish(v, p, in.topic, in.msg, state)
    \/ \E v \in vus, in \in Of(inputs, "PublishWithAttributes"), p \in Handles, state \in States :
          xk6PublishWithAttributes(v, p, in.topic, in.msg, in.attributes, state)
    \/ \E v \in vus : PublishReturns(v)
    \/ \E v \in vus : xk6GetReturns(v)
    \/ \E v \in vus, outcome \in {"acked", ErrCanceled} \cup Errors : ClientResolves(v, outcome)
    \/ \E v \in vus : HostCancels(v)

\* Several iterations publish through shared handles.
Next == NextOf(ScriptConfigs, MaxPublishers, VUs, Inputs)
Spec == Init /\ [][Next]_vars

\* Every configuration, one iteration.
NextConfig == NextOf(AllConfigs, MaxConfigPublishers, {"vu1"}, {in \in Inputs : in.topic = "topic-a"})
SpecConfig == Init /\ [][NextConfig]_vars

(* ------------------------------------------------------------------ *)
(* Properties                                                          *)
(* ------------------------------------------------------------------ *)

InCall(v) == calls[v].pc # "idle"
HasContext(v) == InCall(v) /\ calls[v].state # Nil
Returned(v) == calls[v].pc = "returned"

\* Payload and attribute mapping of a message handed to the client.
PayloadOf(m) == IF variant = "watermill" THEN m.Payload ELSE m.Data
AttributesOf(m) == IF variant = "watermill" THEN m.Metadata ELSE m.Attributes

\* C1: a publish call made with no resolvable execution context returns the
\* context-unavailable error and has submitted nothing to the client.
C1_NoContextNoSubmission ==
    \A v \in VUs :
        InCall(v) /\ calls[v].state = Nil =>
            /\ Returned(v)
            /\ calls[v].ret = ErrStateNil
            /\ sent[v] = << >>
            /\ result[v] = "none"

C1_Witness ==
    \E v \in VUs, w \in VUs :
        /\ Returned(v) /\ calls[v].state = Nil
        /\ calls[w].pc = "waiting"

\* C2: a publish call with an execution context whose client call failed
\* with e returns e itself, and the client was called once for it.
C2_ErrorReturnedUnchanged ==
    \A v \in VUs :
        HasContext(v) =>
            /\ Len(sent[v]) = 1
            /\ Returned(v) /\ result[v] # "acked" => calls[v].ret = result[v]

C2_Witness ==
    \E v \in VUs :
        HasContext(v) /\ Returned(v) /\ result[v] = "DeadlineExceeded"

\* The exact product n * 10^9 of a 64-bit integer, 128 bits wide.
ExactSeconds(n) == MulBytes(SignExt(n, 16), SignExt(Second, 16), 16)

\* C3: the client is constructed with a timeout of 5 seconds when
\* publish_timeout is absent, zero or negative, and of N seconds when it is
\* a positive integer N.
C3_ResolvedTimeout ==
    \A h \in 1..Len(publishers) :
        publishers[h].decoded =>
            LET t == publishers[h].config.PublishTimeout
                n == IF t.kind = "absent" \/ LessThanOne(t.val) THEN Int5 ELSE t.val
            IN  SignExt(publishers[h].args.PublishTimeout, 16) = ExactSeconds(n)

\* C4: the client is constructed with one credential option holding the
\* credentials unchanged when they are a non-empty string, and with no
\* credential option when they are absent or empty.
C4_CredentialOption ==
    \A h \in 1..Len(publishers) :
        publishers[h].decoded =>
            LET c == publishers[h].config.Credentials
            IN  IF c.kind = "string" /\ c.val # << >>
                THEN publishers[h].args.ClientOptions =
                         <<[option |-> "WithCredentialsJSON", json |-> c.val]>>
                ELSE publishers[h].args.ClientOptions = << >>

C4_Witness ==
    \E h \in 1..Len(publishers) :
        /\ publishers[h].handle
        /\ publishers[h].config.Credentials = StrV(CredsJSON)
        /\ Len(publishers[h].args.ClientOptions) = 1

\* C5: once a publish call has returned, the outcome of its submission is
\* decided and is what the call returned; nothing it submitted is pending.
C5_Synchronous ==
    \A v \in VUs :
        Returned(v) /\ sent[v] # << >> =>
            /\ result[v] \in {"acked", ErrCanceled} \cup Errors
            /\ calls[v].ret = IF result[v] = "acked" THEN Nil ELSE result[v]

C5_Witness ==
    \E v \in VUs, w \in VUs :
        /\ Returned(v) /\ sent[v] # << >> /\ result[v] = "acked"
        /\ calls[w].pc = "waiting" /\ result[w] = "pending"

\* What the constructor calls have left behind: a call whose configuration
\* does not decode never reaches the client's constructor, and a call that
\* returns no handle is the last thing the process did.
C6_FatalEntries ==
    \A h \in 1..Len(publishers) :
        /\ DecodeFails(publishers[h].config) =>
               publishers[h].args = NoArgs /\ ~publishers[h].handle
        /\ ~publishers[h].handle => terminated /\ h = Len(publishers)

\* C6: a failing Publisher call (configuration not decoded, or client not
\* constructed) terminates the process: it returns no handle, nothing
\* happens after it, and after a decode failure no client is constructed.
C6_FailureTerminates == [] C6_FatalEntries /\ [][~terminated]_vars

C6_Witness ==
    /\ terminated
    /\ publishers[Len(publishers)].args = NoArgs
    /\ \E v \in VUs : calls[v].pc = "waiting"

\* C7: PublishWithAttributes with an execution context submits one message,
\* to the given topic, with the bytes of msg as payload and attrs as its
\* attribute mapping.
C7_MessageAsGiven ==
    \A v \in VUs :
        HasContext(v) /\ calls[v].fn = "PublishWithAttributes" =>
            /\ Len(sent[v]) = 1
            /\ sent[v][1].p = calls[v].p
            /\ sent[v][1].topic = calls[v].topic
            /\ PayloadOf(sent[v][1].message) = calls[v].msg
            /\ AttributesOf(sent[v][1].message) = calls[v].attributes

C7_Witness ==
    \E v \in VUs :
        /\ HasContext(v) /\ calls[v].fn = "PublishWithAttributes"
        /\ DOMAIN calls[v].attributes = {"k", "trace"}
        /\ calls[v].msg = MsgHello

\* C8: a publish call with an execution context makes one submission, and
\* when the service acknowledges it the call returns no error and reports
\* nothing.
C8_OneSubmissionAckIsNil ==
    \A v \in VUs :
        HasContext(v) =>
            /\ Len(sent[v]) = 1
            /\ Returned(v) /\ result[v] = "acked" =>
                   calls[v].ret = Nil /\ sink[v] = << >>

C8_Witness ==
    \E v \in VUs :
        HasContext(v) /\ Returned(v) /\ result[v] = "acked" /\ calls[v].fn = "Publish"

\* C9: the context handed to the client for a publish is the execution
\* context of the calling iteration, so that the host's cancellation
\* reaches the call in flight.
C9_CallerContextReachesClient ==
    \A v \in VUs :
        \A i \in 1..Len(sent[v]) : sent[v][i].ctx = VUContext(v)

\* What a VU's call has observably done.
Observed(v) == <<calls[v], sent[v], result[v], sink[v]>>

\* Each call in flight or returned has submitted its own arguments and, if
\* returned, holds the outcome of its own submission.
C10_OwnMessageOwnOutcome ==
    \A v \in VUs :
        HasContext(v) =>
            /\ sent[v] = <<[p |-> calls[v].p, topic |-> calls[v].topic,
                            message |-> sent[v][1].message, ctx |-> sent[v][1].ctx]>>
            /\ PayloadOf(sent[v][1].message) = calls[v].msg
            /\ AttributesOf(sent[v][1].message) = calls[v].attributes
            /\ Returned(v) =>
                   calls[v].ret = IF result[v] = "acked" THEN Nil ELSE result[v]

\* A step touches the call of at most one VU, and no step changes a
\* publisher entry (its timeout among the rest) once constructed.
C10_NoInterference ==
    /\ \A v \in VUs, w \in VUs :
           v # w /\ Observed(v)' # Observed(v) => Observed(w)' = Observed(w)
    /\ \A h \in 1..Len(publishers) :
           Len(publishers') >= h /\ publishers'[h] = publishers[h]

\* C10: with one handle shared by concurrent iterations, under every
\* interleaving each call submits its own topic, payload and attributes and
\* returns the outcome of its own submission, and no call alters another
\* call or the handle.
C10_SharedHandle == [] C10_OwnMessageOwnOutcome /\ [][C10_NoInterference]_vars

C10_Witness ==
    \E v \in VUs, w \in VUs :
        /\ v # w
        /\ HasContext(v) /\ HasContext(w)
        /\ calls[v].p = calls[w].p
        /\ calls[v].topic # calls[w].topic
        /\ Returned(v) /\ result[v] = "acked"
        /\ Returned(w) /\ result[w] = "Unavailable"

====
